---------------------------- MODULE Spec2Model ----------------------------
(***************************************************************************)
(* The two BatFlyingEnv orchestrators of bat_agent                         *)
(*   src/environments/bat_flying_env.py   (variant "environments")         *)
(*   src/lidar_bat_env/bat_flying_env.py  (variant "lidar_bat_env")        *)
(* and the physics/sensor core they call (lidar_bat: Point, Segment,       *)
(* cal_cross_point, is_point_in_segment, LidarBat), which is not among the *)
(* sources and is modelled from spec.md sections 3 and 4.                  *)
(*                                                                         *)
(* Fixed-point encoding of the floats:                                     *)
(*   length   : 1 unit = 0.00125 m   (1 m = 800 units)                     *)
(*   velocity : 1 unit = 0.25 m/s    (= 1 length unit per tick, dt = 5 ms) *)
(*   time     : 1 unit = 1 ms                                              *)
(*   reward   : 1 unit = 0.0001                                            *)
(*   normalized observation values : 1 unit = 1/4 (One = 1.0)              *)
(*   a uniform sample of [0,1) : its quarter q in 0..3, standing for q/4   *)
(*   an angle : a direction vector of length 5 (<<5,0>> = 0 rad,           *)
(*              <<4,3>> = atan2(3,4)), or a quarter turn where the code    *)
(*              draws it from uniform(-pi, pi)                             *)
(***************************************************************************)
EXTENDS Integers, Sequences, FiniteSets, TLC

(***************************************************************************)
(* Integer helpers                                                         *)
(***************************************************************************)
Abs(a) == IF a < 0 THEN -a ELSE a

Sgn(a) == IF a < 0 THEN -1 ELSE IF a > 0 THEN 1 ELSE 0

Min2(a, b) == IF a <= b THEN a ELSE b

Max2(a, b) == IF a <= b THEN b ELSE a

\* a / b rounded toward zero (b > 0), the fixed-point image of a float quotient
TruncDiv(a, b) == Sgn(a) * (Abs(a) \div b)

\* floor(sqrt(n)) for 0 <= n <= cap * cap
Isqrt(n, cap) == CHOOSE k \in 0..cap : k * k <= n /\ (k = cap \/ (k + 1) * (k + 1) > n)

Clip(a, lo, hi) == IF a < lo THEN lo ELSE IF a > hi THEN hi ELSE a

Norm2(v) == v[1] * v[1] + v[2] * v[2]

Dot(a, b) == a[1] * b[1] + a[2] * b[2]

Cross(a, b) == a[1] * b[2] - a[2] * b[1]

Sub(a, b) == <<a[1] - b[1], a[2] - b[2]>>

Add(a, b) == <<a[1] + b[1], a[2] + b[2]>>

(***************************************************************************)
(* Geometry primitives (lidar_bat; spec.md 4.1)                            *)
(***************************************************************************)
\* normalized 1.0 in quarters
One == 4

\* a direction of length 5 is a unit vector
DirScale == 5

Point(x, y) == <<x, y>>

Segment(p0, p1) == <<p0, p1>>

\* unit_vector(angle) for an angle given as quarter turns from -pi:
\* q = 0,1,2,3 stands for -pi, -pi/2, 0, pi/2
cos_sin(q) ==
    CASE q % 4 = 0 -> <<-DirScale, 0>>
      [] q % 4 = 1 -> <<0, -DirScale>>
      [] q % 4 = 2 -> <<DirScale, 0>>
      [] OTHER     -> <<0, DirScale>>

\* rotate(vector, angle): the angle is the direction h, so the result is
\* |h| times the rotated vector (a direction; callers use it up to scale)
rotate_vector(v, h) == <<v[1] * h[1] - v[2] * h[2], v[1] * h[2] + v[2] * h[1]>>

NoPoint == [nx |-> 0, ny |-> 0, d |-> 0]

\* line_intersection: the crossing of the two infinite lines by the 2x2
\* determinant solve, as the rational point (nx/d, ny/d) with d > 0;
\* NoPoint (d = 0) when the lines are parallel or a segment has no length
cal_cross_point(s0, s1) ==
    LET d0  == Sub(s0[2], s0[1])
        d1  == Sub(s1[2], s1[1])
        den == Cross(d0, d1)
        num == Cross(Sub(s1[1], s0[1]), d1)
        sg  == Sgn(den)
    IN  IF den = 0 THEN NoPoint
        ELSE [nx |-> sg * (s0[1][1] * den + num * d0[1]),
              ny |-> sg * (s0[1][2] * den + num * d0[2]),
              d  |-> sg * den]

\* point_on_segment: the point lies in the bounding rectangle of the segment
is_point_in_segment(p, s) ==
    /\ p.d > 0
    /\ Min2(s[1][1], s[2][1]) * p.d <= p.nx
    /\ p.nx <= Max2(s[1][1], s[2][1]) * p.d
    /\ Min2(s[1][2], s[2][2]) * p.d <= p.ny
    /\ p.ny <= Max2(s[1][2], s[2][2]) * p.d

\* A real crossing of two finite segments (spec.md 4.3): the intersection of
\* the lines lies on both of them
Crosses(path, w) ==
    LET c_p == cal_cross_point(path, w)
    IN  is_point_in_segment(c_p, path) /\ is_point_in_segment(c_p, w)

(***************************************************************************)
(* LidarBat (lidar_bat; spec.md 3, 4.2, 4.3, 4.4)                          *)
(***************************************************************************)
\* number of echo readings kept
n_memory == 2

\* maximum speed, 6 m/s
max_speed == 24

\* maximum sensing range, 1 m
lidar_length == 800

\* "nothing detected": maximum normalized distance, zero bearing
Placeholder == <<One, 0>>

\* LidarBat(init_angle, init_x, init_y, init_speed, dt)
LidarBat(dir, x, y, speed) ==
    [bat_vec |-> <<x, y>>,
     v_vec   |-> <<(speed * dir[1]) \div DirScale, (speed * dir[2]) \div DirScale>>,
     angle   |-> dir,
     emit    |-> FALSE,
     state   |-> [i \in 1..n_memory |-> Placeholder]]

\* the speed clamp: a velocity longer than max_speed is scaled back onto it
ClampSpeed(v) ==
    IF Norm2(v) <= max_speed * max_speed THEN v
    ELSE LET n == Isqrt(Norm2(v), 4 * max_speed)
         IN  <<TruncDiv(v[1] * max_speed, n), TruncDiv(v[2] * max_speed, n)>>

\* advance: velocity first, then position with the new velocity, and the
\* heading follows the velocity unless the bat is at rest.  dv is the
\* velocity change of this tick (acceleration * dt).
move(b, dv) ==
    LET v1 == ClampSpeed(Add(b.v_vec, dv))
    IN  [b EXCEPT !.v_vec = v1,
                  !.bat_vec = Add(b.bat_vec, v1),
                  !.angle = IF v1 = <<0, 0>> THEN b.angle ELSE v1]

\* reflection of v on a wall of direction w: the parallel part is kept, the
\* perpendicular part is inverted
flip_vector(v, w) ==
    IF Norm2(w) = 0 THEN v
    ELSE <<TruncDiv(2 * Dot(v, w) * w[1] - Norm2(w) * v[1], Norm2(w)),
           TruncDiv(2 * Dot(v, w) * w[2] - Norm2(w) * v[2], Norm2(w))>>

\* bump: back to the old position, velocity reflected on the wall
bump(b, old_vec, wall_vec) ==
    [b EXCEPT !.bat_vec = old_vec, !.v_vec = flip_vector(b.v_vec, wall_vec)]

\* update_state without the eviction: the memory grows by one reading
update_state_grow(b, reading) == [b EXCEPT !.state = <<reading>> \o b.state]

\* pushing a reading evicts the oldest one; the newest is first
update_state(b, reading) ==
    [b EXCEPT !.state = [i \in 1..n_memory |->
                            IF i = 1 THEN reading ELSE b.state[i - 1]]]

\* the pulse direction (body frame) kept inside the emission cone of
\* half-angle pi/4: a direction outside goes to the nearest edge
ClampCone(p) ==
    IF p[1] > 0 /\ Abs(p[2]) <= p[1] THEN p
    ELSE IF p[2] >= 0 THEN <<1, 1>> ELSE <<1, -1>>

\* bearing / pi of a direction inside the cone, in quarters
BearingNorm(p) == IF Abs(p[2]) * 2 < p[1] THEN 0 ELSE Sgn(p[2])

\* the world-frame direction of one pulse: the clamped body-frame direction
\* rotated by the heading
PulseDir(b, p) == rotate_vector(ClampCone(p), b.angle)

\* The ray from the bat along D against wall w, by the determinant solve in
\* parametric form: the crossing is bat + (sn/den) * D on the ray and
\* w[1] + (un/den) * (w[2] - w[1]) on the wall; den = 0 for parallel lines.
RayHit(b, D, w) ==
    LET e   == Sub(w[2], w[1])
        r   == Sub(w[1], b.bat_vec)
        sg  == Sgn(Cross(D, e))
    IN  [sn |-> sg * Cross(r, e), un |-> sg * Cross(r, D), den |-> sg * Cross(D, e)]

\* |D| in length units, rounded down
RayLen(D) == Isqrt(Norm2(D), 2 * max_speed)

\* wall w echoes the pulse: the crossing is ahead of the bat, on the wall
\* segment, and within the sensing range
Echoes(b, D, w) ==
    LET h == RayHit(b, D, w)
    IN  /\ h.den > 0
        /\ h.sn >= 0
        /\ 0 <= h.un /\ h.un <= h.den
        /\ h.sn * RayLen(D) <= lidar_length * h.den

\* distance from the bat to the crossing with an echoing wall, rounded down
EchoDistance(b, D, w) ==
    LET h == RayHit(b, D, w) IN (h.sn * RayLen(D)) \div h.den

\* the reading of one pulse: the nearest echoing wall as (distance / range,
\* bearing / pi), both clamped, or the placeholder when no wall echoes
EchoReading(b, p, walls) ==
    LET D    == PulseDir(b, p)
        hits == {i \in 1..Len(walls) : Echoes(b, D, walls[i])}
    IN  IF hits = {} THEN Placeholder
        ELSE LET j == CHOOSE i \in hits : \A k \in hits :
                         EchoDistance(b, D, walls[i]) <= EchoDistance(b, D, walls[k])
             IN  <<Clip((One * EchoDistance(b, D, walls[j])) \div lidar_length, 0, One),
                   Clip(BearingNorm(ClampCone(p)), -One, One)>>

\* emit_pulse: the reading is folded into the echo memory
emit_pulse(b, p, walls) == update_state(b, EchoReading(b, p, walls))

(***************************************************************************)
(* The random generators.  self.np_random is seeded by seed(); its state   *)
(* is one number, each sample advances it and is a function of it.         *)
(* np.random is the process-wide generator, which seed() does not touch:   *)
(* each of its samples is an input of the step that draws it.              *)
(***************************************************************************)
\* seeds tried: 0..MaxSeed
MaxSeed == 1

Seeds == 0..MaxSeed

\* the generator's states are 0..(RngMod - 1)
RngMod == 16

\* seeding.np_random(seed)
np_random_of(seed) == seed % RngMod

\* the state after one sample
RngNext(g) == (5 * g + 3) % RngMod

RECURSIVE RngSkip(_, _)
\* the state after n samples
RngSkip(g, n) == IF n = 0 THEN g ELSE RngSkip(RngNext(g), n - 1)

\* sample number i (from 0) drawn from state g, as its quarter 0..3
Sample(g, i) == (4 * RngSkip(g, i)) \div RngMod

\* the samples np.random.rand() is let come out as: 0.25 and 0.75
Quarters == {1, 3}

\* uniform(low, high) for the sample of quarter q
uniform(low, high, q) == low + ((high - low) * q) \div 4

(***************************************************************************)
(* environments/BatFlyingEnv                                               *)
(***************************************************************************)
\* self.dt = 0.005 s, in ms
dt == 5

\* the episode ends when 5 s < t, in ms
t_limit == 5000

\* t before the first reset: the attribute does not exist
NoT == 0 - 1

\* world_width = world_height = 4.5 m
world_default == 3600

\* margin = 0.01 m of the boundary walls
wall_margin == 8

\* margin = 0.2 m of the initial position
bat_margin == 160

\* init_speed = 5 m/s
init_speed == 20

\* l = 0.3 m, the length of an interior wall
wall_length == 240

\* np.linspace(1.5, 3.5, 3), in length units
grid_first == 1200

grid_step == 800

\* the jitter of an interior wall's centre, uniform(-0.3, 0.3)
wall_jitter == 240

\* rewards, in units of 0.0001
fliyng_reward == 10000

accel_reward == 0 - 1

pulse_reward == 0 - 1

pulse_angle_reward == 0 - 1

bump_reward == 0 - 1000000

low_speed_reward == 0 - 1000000

\* lower_bound_freq_emit_pulse = 0.3, in hundredths
lower_bound_freq_emit_pulse == 30

\* self.max_accel = 50 m/s^2
max_accel == 50

\* the four boundary walls of __init__, for a margin m
BoundaryWalls(W, H, m) ==
    LET p0 == Point(m, m)
        p1 == Point(m, H - m)
        p2 == Point(W - m, H - m)
        p3 == Point(W - m, m)
    IN  <<Segment(p0, p1), Segment(p1, p2), Segment(p2, p3), Segment(p3, p0)>>

\* _update_observation: the echo memory clipped to [-1, 1] and flattened
update_observation(b) ==
    [i \in 1..(2 * Len(b.state)) |->
        Clip(b.state[(i + 1) \div 2][2 - (i % 2)], -One, One)]

\* _reset_bat: angle, x and y are the next three samples of np_random
reset_bat(e) ==
    LET g == e.np_random
        b == LidarBat(cos_sin(Sample(g, 0)),
                      uniform(bat_margin, e.W - bat_margin, Sample(g, 1)),
                      uniform(bat_margin, e.H - bat_margin, Sample(g, 2)),
                      init_speed)
    IN  [e EXCEPT !.bat = b, !.np_random = RngSkip(g, 3),
                  !.state = update_observation(b)]

\* interior wall i (0..8) of _reset_walls: samples i, 9 + i and 18 + i are
\* its x jitter, y jitter and angle
InteriorWall(g, i) ==
    LET x  == grid_first + grid_step * (i % 3)
                + uniform(-wall_jitter, wall_jitter, Sample(g, i))
        y  == grid_first + grid_step * (i \div 3)
                + uniform(-wall_jitter, wall_jitter, Sample(g, 9 + i))
        cs == cos_sin(Sample(g, 18 + i))
        c  == ((wall_length \div 2) * cs[1]) \div DirScale
        s  == ((wall_length \div 2) * cs[2]) \div DirScale
    IN  Segment(Point(x + c, y + s), Point(x - c, y - s))

\* self.walls[:4]
FirstFour(walls) == SubSeq(walls, 1, Min2(4, Len(walls)))

\* _reset_walls without `self.walls = self.walls[:4]`: the walls of the
\* episode before are kept too
reset_walls_keep(e) ==
    [e EXCEPT !.walls = e.walls \o [i \in 1..9 |-> InteriorWall(e.np_random, i - 1)],
              !.np_random = RngSkip(e.np_random, 27)]

\* _reset_walls: the first four walls are kept and nine are appended
reset_walls(e) ==
    [e EXCEPT !.walls = FirstFour(e.walls)
                          \o [i \in 1..9 |-> InteriorWall(e.np_random, i - 1)],
              !.np_random = RngSkip(e.np_random, 27)]

\* reset: a new bat, new walls, t = 0, and the observation is returned
reset_env(e) ==
    LET e1 == reset_walls(reset_bat(e))
    IN  [e1 EXCEPT !.t = 0, !.state = update_observation(e1.bat)]

\* np.clip(action, self.action_low, self.action_high)
clip_action(a) ==
    [accel |-> <<Clip(a.accel[1], -1, 1), Clip(a.accel[2], -1, 1)>>,
     pulse |-> <<Clip(a.pulse[1], -1, 1), Clip(a.pulse[2], -1, 1)>>,
     proba |-> Clip(a.proba, 0, 100)]

RECURSIVE bump_loop_new_pos(_, _, _, _, _, _)
\* the loop bumping the bat to bat_p1, the position after the move, instead
\* of bat_p0
bump_loop_new_pos(b, bat_p0, bat_seg, walls, i, n) ==
    IF i > Len(walls) THEN [bat |-> b, n |-> n]
    ELSE IF is_point_in_segment(cal_cross_point(bat_seg, walls[i]), bat_seg)
         THEN bump_loop_new_pos(bump(b, bat_seg[2], Sub(walls[i][1], walls[i][2])),
                                bat_p0, bat_seg, walls, i + 1, n + 1)
         ELSE bump_loop_new_pos(b, bat_p0, bat_seg, walls, i + 1, n)

RECURSIVE bump_loop(_, _, _, _, _, _)
\* the loop over the walls in step, from wall i on, after n bumps: every
\* wall whose line meets the path inside the path's extent bumps the bat
\* back to bat_p0.  The result is the bat and the number of bumps.
bump_loop(b, bat_p0, bat_seg, walls, i, n) ==
    IF i > Len(walls) THEN [bat |-> b, n |-> n]
    ELSE IF is_point_in_segment(cal_cross_point(bat_seg, walls[i]), bat_seg)
         THEN bump_loop(bump(b, bat_p0, Sub(walls[i][1], walls[i][2])),
                        bat_p0, bat_seg, walls, i + 1, n + 1)
         ELSE bump_loop(b, bat_p0, bat_seg, walls, i + 1, n)

\* np.random.rand() < pulse_proba/2 + lower_bound_freq_emit_pulse, for the
\* sample of quarter u and pulse_proba in hundredths
emit_gate(u, proba) == 25 * u < proba \div 2 + lower_bound_freq_emit_pulse

\* the emission part of step without `self.bat.emit = False`
emit_part_keep(b, fire, pulse, walls) ==
    IF fire THEN [emit_pulse(b, pulse, walls) EXCEPT !.emit = TRUE] ELSE b

\* the emission part of step: the flag is cleared, and set again when the
\* gate lets the pulse out
emit_part(b, fire, pulse, walls) ==
    LET b0 == [b EXCEPT !.emit = FALSE]
    IN  IF fire THEN [emit_pulse(b0, pulse, walls) EXCEPT !.emit = TRUE] ELSE b0

\* 5 <= self.t
is_done_at(t1) == t_limit <= t1

\* 5 < self.t
is_done(t1) == t_limit < t1

\* step of environments/BatFlyingEnv for one action and one np.random sample
\* u.  Before the first reset self.t does not exist: the bat has moved,
\* bumped and pulsed when `self.t += self.dt` raises AttributeError.
step_env(e, action, u) ==
    LET a      == clip_action(action)
        bat_p0 == e.bat.bat_vec
        moved  == move(e.bat, <<(a.accel[1] * max_accel * dt) \div 250,
                                (a.accel[2] * max_accel * dt) \div 250>>)
        bat_p1 == moved.bat_vec
        seg    == Segment(bat_p0, bat_p1)
        lp     == bump_loop(moved, bat_p0, seg, e.walls, 1, 0)
        fire   == emit_gate(u, a.proba)
        b2     == emit_part(lp.bat, fire, a.pulse, e.walls)
        reward == fliyng_reward
                    + accel_reward * Isqrt(Norm2(a.accel), 2)
                    + lp.n * bump_reward
                    + (IF fire THEN pulse_reward + pulse_angle_reward * a.pulse[1] ELSE 0)
                    + (IF Norm2(b2.v_vec) < 16 THEN low_speed_reward ELSE 0)
        e2     == [e EXCEPT !.bat = b2,
                            !.last_pulse = IF fire THEN a.pulse ELSE e.last_pulse]
        tk     == [op |-> "step", p0 |-> bat_p0, p1 |-> bat_p1,
                   crossed |-> Cardinality({i \in 1..Len(e.walls) : Crosses(seg, e.walls[i])}),
                   bumps |-> lp.n, fired |-> fire, mem0 |-> e.bat.state,
                   emit0 |-> e.bat.emit, penalty |-> lp.n * bump_reward,
                   t0 |-> e.t, walls0 |-> e.walls]
    IN  IF e.t = NoT
        THEN [env |-> e2, tick |-> tk,
              ret |-> [kind |-> "raise", obs |-> <<>>, reward |-> 0, done |-> "none"]]
        ELSE [env |-> [e2 EXCEPT !.t = e.t + dt, !.state = update_observation(b2)],
              tick |-> tk,
              ret |-> [kind |-> "step", obs |-> update_observation(b2),
                       reward |-> reward,
                       done |-> IF is_done(e.t + dt) THEN "true" ELSE "false"]]

(***************************************************************************)
(* lidar_bat_env/BatFlyingEnv                                              *)
(***************************************************************************)
\* margin = 0.1 m of the boundary walls
lidar_wall_margin == 80

\* self.default_bat: LidarBat(0, 0.3, 0.75, 3, self.dt)
default_x == 240

default_y == 600

default_speed == 12

default_bat == LidarBat(<<DirScale, 0>>, default_x, default_y, default_speed)

\* self.accel_thresh = 50 m/s^2
accel_thresh == 50

\* np.random.rand() > action[2], for the sample of quarter u and action[2]
\* in hundredths
lidar_gate(u, a2) == 25 * u > a2

RECURSIVE lidar_bump_loop(_, _, _, _, _, _)
\* the loop over the walls in step, from wall i on, after n bumps; the
\* wall's angle is passed as the direction p1 - p0
lidar_bump_loop(b, bat_p0, bat_seg, walls, i, n) ==
    IF i > Len(walls) THEN [bat |-> b, n |-> n]
    ELSE IF is_point_in_segment(cal_cross_point(bat_seg, walls[i]), bat_seg)
         THEN lidar_bump_loop(bump(b, bat_p0, Sub(walls[i][2], walls[i][1])),
                              bat_p0, bat_seg, walls, i + 1, n + 1)
         ELSE lidar_bump_loop(b, bat_p0, bat_seg, walls, i + 1, n)

\* step of lidar_bat_env/BatFlyingEnv.  action = (acceleration, its angle as
\* a direction, the gate level, the pulse angle as a body-frame direction).
\* step_reward is set to -1.0 by a bump and then to 0 before the return;
\* done is None; the observation is the echo memory as it is.
step_lidar(e, action, u) ==
    LET bat_p0 == e.bat.bat_vec
        moved  == move(e.bat,
                       <<TruncDiv(action.accel * action.dir[1] * dt, 250 * DirScale),
                         TruncDiv(action.accel * action.dir[2] * dt, 250 * DirScale)>>)
        bat_p1 == moved.bat_vec
        seg    == Segment(bat_p0, bat_p1)
        lp     == lidar_bump_loop(moved, bat_p0, seg, e.walls, 1, 0)
        fire   == lidar_gate(u, action.gate)
        b2     == emit_part(lp.bat, fire, action.pulse, e.walls)
    IN  [env |-> [e EXCEPT !.bat = b2,
                           !.last_pulse = IF fire THEN action.pulse ELSE e.last_pulse],
         tick |-> [op |-> "step", p0 |-> bat_p0, p1 |-> bat_p1,
                   crossed |-> Cardinality({i \in 1..Len(e.walls) : Crosses(seg, e.walls[i])}),
                   bumps |-> lp.n, fired |-> fire, mem0 |-> e.bat.state,
                   emit0 |-> e.bat.emit, penalty |-> 0,
                   t0 |-> e.t, walls0 |-> e.walls],
         ret |-> [kind |-> "step", obs |-> b2.state, reward |-> 0, done |-> "none"]]

\* reset(bat): the default bat or the given one, t = 0; the walls stay
reset_lidar(e, b) == [e EXCEPT !.bat = b, !.t = 0]

(***************************************************************************)
(* The state: one BatFlyingEnv instance (its fields), what its last call   *)
(* returned (ret), what happened in that call (tick), how many steps were  *)
(* made since the last reset (steps), and, for the comparison of two       *)
(* instances, a second instance (twin).                                    *)
(***************************************************************************)
VARIABLES variant, world, bat, walls, t, state, np_random, last_pulse,
          ret, tick, steps, twin

vars == <<variant, world, bat, walls, t, state, np_random, last_pulse,
          ret, tick, steps, twin>>

\* steps allowed between two resets
MaxTicks == 2

Self ==
    [variant |-> variant, W |-> world[1], H |-> world[2], bat |-> bat,
     walls |-> walls, t |-> t, state |-> state, np_random |-> np_random,
     last_pulse |-> last_pulse]

Install(e) ==
    /\ variant' = e.variant
    /\ world' = <<e.W, e.H>>
    /\ bat' = e.bat
    /\ walls' = e.walls
    /\ t' = e.t
    /\ state' = e.state
    /\ np_random' = e.np_random
    /\ last_pulse' = e.last_pulse

\* what a call that is no step leaves in tick: the call, and t and the walls
\* as they were before it
NoTick(op, t0, walls0) ==
    [op |-> op, p0 |-> <<0, 0>>, p1 |-> <<0, 0>>, crossed |-> 0, bumps |-> 0,
     fired |-> FALSE, mem0 |-> <<>>, emit0 |-> FALSE, penalty |-> 0,
     t0 |-> t0, walls0 |-> walls0]

NoRet == [kind |-> "none", obs |-> <<>>, reward |-> 0, done |-> "none"]

ObsRet(obs) == [kind |-> "reset", obs |-> obs, reward |-> 0, done |-> "none"]

NoTwin == [synced |-> FALSE]

\* __init__ of environments/BatFlyingEnv with its defaults: the boundary
\* walls, seed(), _reset_bat(), self.state = None, seed() again.  s1 and s2
\* are the seeds the two seed() calls take from the system's entropy.
init_env(s1, s2) ==
    LET e0 == [variant |-> "environments", W |-> world_default, H |-> world_default,
               bat |-> default_bat,
               walls |-> BoundaryWalls(world_default, world_default, wall_margin),
               t |-> NoT, state |-> <<>>, np_random |-> np_random_of(s1),
               last_pulse |-> <<0, 0>>]
    IN  [reset_bat(e0) EXCEPT !.state = <<>>, !.np_random = np_random_of(s2)]

\* the worlds a lidar_bat_env is built for: 0.425 m x 1 m
LidarWorlds == {<<340, 800>>}

\* the bats handed to lidar_bat_env: none (the default bat), or one 1.25 cm
\* before the upper right corner of the 0.425 m x 1 m world, flying into it
\* at 5 m/s
GivenBats == {default_bat, LidarBat(<<4, 3>>, 252, 714, init_speed)}

\* __init__ of lidar_bat_env/BatFlyingEnv
init_lidar(W, H, b, s) ==
    [variant |-> "lidar_bat_env", W |-> W, H |-> H, bat |-> b,
     walls |-> BoundaryWalls(W, H, lidar_wall_margin),
     t |-> NoT, state |-> <<>>, np_random |-> np_random_of(s),
     last_pulse |-> <<0, 0>>]

\* the actions given to step of environments/BatFlyingEnv
EnvActions ==
    {[accel |-> <<0, 0>>, pulse |-> <<1, 0>>, proba |-> 0],
     [accel |-> <<1, 0>>, pulse |-> <<0, 1>>, proba |-> 0],
     [accel |-> <<0, -2>>, pulse |-> <<1, 0>>, proba |-> 200]}

\* the actions given to step of lidar_bat_env/BatFlyingEnv
LidarActions ==
    {[accel |-> 0, dir |-> <<DirScale, 0>>, gate |-> 50, pulse |-> <<1, 0>>],
     [accel |-> accel_thresh, dir |-> <<DirScale, 0>>, gate |-> 50, pulse |-> <<1, -1>>],
     [accel |-> accel_thresh, dir |-> <<0, DirScale>>, gate |-> 50, pulse |-> <<1, 0>>]}

InitEnv ==
    \E s1 \in Seeds, s2 \in Seeds :
        LET e == init_env(s1, s2)
        IN  /\ variant = e.variant /\ world = <<e.W, e.H>> /\ bat = e.bat
            /\ walls = e.walls /\ t = e.t /\ state = e.state
            /\ np_random = e.np_random /\ last_pulse = e.last_pulse

InitLidar ==
    \E wd \in LidarWorlds, b \in GivenBats, s \in Seeds :
        LET e == init_lidar(wd[1], wd[2], b, s)
        IN  /\ variant = e.variant /\ world = <<e.W, e.H>> /\ bat = e.bat
            /\ walls = e.walls /\ t = e.t /\ state = e.state
            /\ np_random = e.np_random /\ last_pulse = e.last_pulse

Init ==
    /\ InitEnv \/ InitLidar
    /\ ret = NoRet
    /\ tick = NoTick("init", NoT, <<>>)
    /\ steps = 0
    /\ twin = NoTwin

\* seed(s)
Seed ==
    \E s \in Seeds :
        /\ np_random' = np_random_of(s)
        /\ ret' = [NoRet EXCEPT !.kind = "seed"]
        /\ tick' = NoTick("seed", t, walls)
        /\ UNCHANGED <<variant, world, bat, walls, t, state, last_pulse, steps, twin>>

\* environments/BatFlyingEnv.reset()
ResetEnv ==
    /\ variant = "environments"
    /\ \E e \in {reset_env(Self)} :
          Install(e) /\ ret' = ObsRet(e.state)
    /\ tick' = NoTick("reset", t, walls)
    /\ steps' = 0
    /\ UNCHANGED twin

\* environments/BatFlyingEnv.step(action), for the actions of Acts, the
\* np.random samples of Us and at most max steps between two resets
StepEnvOf(Acts, Us, max) ==
    /\ variant = "environments"
    /\ steps < max
    /\ \E a \in Acts, u \in Us :
          \E r \in {step_env(Self, a, u)} :
              Install(r.env) /\ ret' = r.ret /\ tick' = r.tick
    /\ steps' = steps + 1
    /\ UNCHANGED twin

StepEnv == StepEnvOf(EnvActions, Quarters, MaxTicks)

\* lidar_bat_env/BatFlyingEnv.reset(bat)
ResetLidar ==
    /\ variant = "lidar_bat_env"
    /\ \E b \in GivenBats :
          \E e \in {reset_lidar(Self, b)} :
              Install(e) /\ ret' = ObsRet(e.bat.state)
    /\ tick' = NoTick("reset", t, walls)
    /\ steps' = 0
    /\ UNCHANGED twin

\* lidar_bat_env/BatFlyingEnv.step(action)
StepLidar ==
    /\ variant = "lidar_bat_env"
    /\ steps < MaxTicks
    /\ \E a \in LidarActions, u \in Quarters :
          \E r \in {step_lidar(Self, a, u)} :
              Install(r.env) /\ ret' = r.ret /\ tick' = r.tick
    /\ steps' = steps + 1
    /\ UNCHANGED twin

Next == Seed \/ ResetEnv \/ StepEnv \/ ResetLidar \/ StepLidar

Spec == Init /\ [][Next]_vars

(***************************************************************************)
(* One episode of environments/BatFlyingEnv run to its end: the bat is     *)
(* left to fly (no acceleration, np.random.rand() at 0.75 so that no pulse *)
(* is let out), for up to MaxClockTicks steps.                             *)
(***************************************************************************)
\* steps allowed between two resets when an episode is run to its end
MaxClockTicks == 1002

ClockActions == {[accel |-> <<0, 0>>, pulse |-> <<1, 0>>, proba |-> 0]}

InitClock ==
    /\ InitEnv
    /\ ret = NoRet
    /\ tick = NoTick("init", NoT, <<>>)
    /\ steps = 0
    /\ twin = NoTwin

StepClock == StepEnvOf(ClockActions, {3}, MaxClockTicks)

NextClock == ResetEnv \/ StepClock

SpecClock == InitClock /\ [][NextClock]_vars

(***************************************************************************)
(* Two instances of environments/BatFlyingEnv in one process, given the    *)
(* same calls: seed(s), reset(), step(action).  Each step draws its own    *)
(* sample from np.random.                                                  *)
(***************************************************************************)
TwinActions ==
    {[accel |-> <<0, 0>>, pulse |-> <<1, 0>>, proba |-> 0],
     [accel |-> <<1, 0>>, pulse |-> <<0, 1>>, proba |-> 200]}

InitTwin ==
    /\ InitEnv
    /\ ret = NoRet
    /\ tick = NoTick("init", NoT, <<>>)
    /\ steps = 0
    /\ \E s1 \in Seeds, s2 \in Seeds :
          twin = [synced |-> FALSE, env |-> init_env(s1, s2), ret |-> NoRet]

\* seed(s) on both instances
TwinSeed ==
    \E s \in Seeds :
        /\ np_random' = np_random_of(s)
        /\ ret' = [NoRet EXCEPT !.kind = "seed"]
        /\ twin' = [synced |-> TRUE,
                    env |-> [twin.env EXCEPT !.np_random = np_random_of(s)],
                    ret |-> [NoRet EXCEPT !.kind = "seed"]]
        /\ tick' = NoTick("seed", t, walls)
        /\ UNCHANGED <<variant, world, bat, walls, t, state, last_pulse, steps>>

\* reset() on both instances
TwinReset ==
    /\ \E e \in {reset_env(Self)} :
          Install(e) /\ ret' = ObsRet(e.state)
    /\ \E e \in {reset_env(twin.env)} :
          twin' = [twin EXCEPT !.env = e, !.ret = ObsRet(e.state)]
    /\ tick' = NoTick("reset", t, walls)
    /\ steps' = 0

\* step(action) on both instances, with the same action
TwinStep ==
    /\ steps < MaxTicks
    /\ \E a \in TwinActions, u1 \in Quarters, u2 \in Quarters :
          /\ \E r \in {step_env(Self, a, u1)} :
                Install(r.env) /\ ret' = r.ret /\ tick' = r.tick
          /\ \E r \in {step_env(twin.env, a, u2)} :
                twin' = [twin EXCEPT !.env = r.env, !.ret = r.ret]
    /\ steps' = steps + 1

NextTwin == TwinSeed \/ TwinReset \/ TwinStep

SpecTwin == InitTwin /\ [][NextTwin]_vars

(***************************************************************************)
(* The claims                                                              *)
(***************************************************************************)
IsStep == tick.op = "step"

Boundary == BoundaryWalls(world[1], world[2], wall_margin)

\* C1 (bump safety): after a step whose path, from the position before the
\* move to the position after it, crosses at least one wall, the bat is
\* exactly at the position it had before the move.
C1_BumpSafety == IsStep /\ tick.crossed >= 1 => bat.bat_vec = tick.p0

\* a step that moved the bat across a wall and left it where it started
C1_Witness ==
    IsStep /\ tick.crossed >= 1 /\ tick.p1 # tick.p0 /\ bat.bat_vec = tick.p0

\* C2 (bump idempotence): after a step whose path crosses no wall segment,
\* no bump was applied: bump was not invoked, the position produced by the
\* move stands and no bump penalty was added.
C2_BumpIdempotence ==
    IsStep /\ tick.crossed = 0 =>
        tick.bumps = 0 /\ bat.bat_vec = tick.p1 /\ tick.penalty = 0

\* C3 (memory invariant): in every reachable state the echo memory holds
\* exactly n_memory entries.
C3_MemoryInvariant == Len(bat.state) = n_memory

\* a step in which a pulse was fired and the bat bumped
C3_Witness ==
    IsStep /\ tick.fired /\ tick.bumps >= 1 /\ Len(bat.state) = n_memory

\* C4 (observation bounds): the observation returned by reset and by every
\* step is a flat sequence of length 2 * n_memory with every element in
\* [-1, 1].
C4_ObservationBounds ==
    ret.kind \in {"reset", "step"} =>
        /\ Len(ret.obs) = 2 * n_memory
        /\ \A i \in 1..Len(ret.obs) : ret.obs[i] \in (-One)..One

\* C5: every step that returns folds exactly one new entry into the echo
\* memory, evicting the oldest; a step that emits no pulse folds the absence
\* placeholder.
C5_EveryTickFolds ==
    IsStep /\ ret.kind = "step" =>
        /\ \A i \in 2..n_memory : bat.state[i] = tick.mem0[i - 1]
        /\ ~tick.fired => bat.state[1] = Placeholder

\* C6: after a step the bat's emit flag is true if and only if emit_pulse was
\* invoked in that step.
C6_EmitFlag == IsStep => (bat.emit <=> tick.fired)

\* a step that emitted nothing, right after a step that emitted
C6_Witness == IsStep /\ tick.emit0 /\ ~tick.fired /\ ~bat.emit

\* C7: when the path of one step crosses two or more walls, the bump is
\* applied once: bump is invoked once and (environments) one bump penalty
\* is added.
C7_SingleBump ==
    IsStep /\ tick.crossed >= 2 =>
        /\ tick.bumps = 1
        /\ variant = "environments" => tick.penalty = bump_reward

\* C8: in environments/BatFlyingEnv the walls are the 4 boundary segments
\* before the first reset, the same 4 segments followed by exactly 9
\* interior segments after any number of resets, and a step leaves the
\* walls as they are.
C8_WallsDoNotAccumulate ==
    variant = "environments" =>
        /\ t = NoT => walls = Boundary
        /\ t # NoT => Len(walls) = 13 /\ SubSeq(walls, 1, 4) = Boundary
        /\ IsStep => walls = tick.walls0

\* a reset of an environment that had 13 walls already, which changed the
\* interior walls
C8_Witness ==
    /\ variant = "environments" /\ tick.op = "reset"
    /\ Len(tick.walls0) = 13 /\ Len(walls) = 13 /\ walls # tick.walls0

\* C9: in environments/BatFlyingEnv reset sets t to 0, every step adds dt,
\* so that t is dt times the number of steps since the reset; a step returns
\* done = true if and only if t is greater than 5 s after its increment, and
\* a step made when t is already greater than 5 s returns done = true.
C9_EpisodeClock ==
    variant = "environments" =>
        /\ tick.op = "reset" => t = 0
        /\ ret.kind = "step" =>
              /\ t = tick.t0 + dt
              /\ t = steps * dt
              /\ ret.done = (IF t > t_limit THEN "true" ELSE "false")
              /\ tick.t0 > t_limit => ret.done = "true"

\* a step that returned done = true after a step that had returned it
C9_Witness == ret.kind = "step" /\ ret.done = "true" /\ tick.t0 > t_limit

\* C10 (seeded reproducibility): two instances seeded with the same seed and
\* then given the same calls return the same observations, rewards and done
\* flags.
C10_SeededReproducible == twin.synced => ret = twin.ret

=============================================================================
